---- MODULE Spec2Model ----
(***************************************************************************)
(* The metadata store (package db), the expiry sweeper (package cleanup),  *)
(* the naming engine (package naming) and the upload handler (package      *)
(* httpd) of PrivateImagesHosting, as one state machine.                   *)
(*                                                                         *)
(* One process at a time runs against a disk that outlives it: the         *)
(* snapshot file and its temp file (disk), and the storage tree (files,    *)
(* dirs).  The process may end at any point (Terminate) and be started     *)
(* again (Open).                                                           *)
(***************************************************************************)
EXTENDS Integers, Sequences, FiniteSets, TLC

\* ------------------------------------------------------------------ bounds
\* uploads started over the whole run (each draws a name, at most one id)
MaxUploads == 2
\* last reading of the wall clock
MaxTime == 3
\* clock readings per hour and per calendar day
Hour == 2
DayTicks == 2
\* largest TTL (hours) a request carries
MaxTTLHours == 1
\* I/O operations that fail over the whole run; once used up, I/O succeeds
MaxIoFaults == 1
\* process starts after the first one
MaxRestarts == 1
\* SetConfig calls over the whole run
MaxSetConfig == 1
\* runs of `httpserver set` over the whole run
MaxSetCommands == 2
\* width of a time.Duration, in bits (64 in the program, whose clock ticks
\* are nanoseconds)
DurationBits == 16

Uploaders == {"u1", "u2"}
Sweepers == {"initial", "ticker"}

\* -------------------------------------------------------------- the store
VARIABLES
    phase,      \* "down" | "up": whether a process is running
    data,       \* Database.data: [Files, NextID, Config]
    mux,        \* Database.mux: [w: holder of the write lock, r: read holders]
    autoSave,   \* Database.autoSave: tokens in the channel of capacity 1
    flusher,    \* the autoSaveLoop goroutine: [pc, buf]
    closer,     \* a caller inside Close: [pc, buf]
    disk,       \* [db: the file at filePath, tmp: the file at filePath+".tmp"]
    files,      \* physical files of the storage tree (relative paths)
    dirs,       \* date directories of the storage tree
    now,        \* the wall clock
    up,         \* upload handlers: [u -> [pc, req, path, ttl, at, id]]
    sw,         \* cleanup goroutines: [s -> [pc, todo, cur, listed, at, seen,
                \* out, view]]
    started,    \* CleanupManager.Start has run in this process
    stopChan,   \* CleanupManager.stopChan: "open" | "closed"
    randOk,     \* whether crypto/rand.Read can succeed in this environment
    ioFaults,   \* I/O failures so far
    restarts,   \* processes started after the first
    uploads,    \* uploads started so far
    setConfigs, \* SetConfig calls so far
    inserted,   \* history: <<id, path>> of every completed SaveFileMetadata
    removedMeta,\* history: paths whose record DeleteFileMetadata removed
    closedData, \* history: data as of the last successful Close, if nothing
                \* changed it since; else NoData
    cfg,        \* the config.Config main builds from the store at startup
    resp        \* the last answer given to the outside, an HTTP response or
                \* the message of the set command: [handler, req, status]

vars == <<phase, data, mux, autoSave, flusher, closer, disk, files, dirs, now,
          up, sw, started, stopChan, randOk, ioFaults, restarts, uploads, setConfigs,
          inserted, removedMeta, closedData, cfg, resp>>


\* ------------------------------------------------------------ data model
NoData == [none |-> TRUE]

\* default configuration (initDefaultConfig); three of its keys are kept
DefaultConfig == [k \in {"server.port", "storage.default_ttl", "storage.max_ttl"} |->
                    CASE k = "server.port" -> "8080"
                      [] k = "storage.default_ttl" -> "1"
                      [] k = "storage.max_ttl" -> "8760"]

ConfigKeys == {"server.port"}
ConfigValues == {"80"}

EmptyFn == [x \in {} |-> x]

\* the struct literal of Open: empty maps, NextID 1
FreshData == [Files |-> EmptyFn, NextID |-> 1, Config |-> EmptyFn]

\* a time.Time: the wall reading, and whether it carries a monotonic reading
Instant(t) == [wall |-> t, mono |-> TRUE]
\* a variant: nothing is added
AddDurationNone(i, d) == i
AddDuration(i, d) == [i EXCEPT !.wall = @ + d]
\* time.Duration(ttl) * time.Hour: a Duration is a signed integer of
\* DurationBits bits, and the product wraps around
DurationHours(ttl) ==
    ((ttl * Hour + 2^(DurationBits - 1)) % 2^DurationBits) - 2^(DurationBits - 1)
\* a variant: an instant is before itself
BeforeOrAt(a, b) == a.wall <= b.wall
Before(a, b) == a.wall < b.wall

IdCap == MaxUploads + 1

\* ------------------------------------------------------------ JSON codec
\* what a process may return a record as: its id, path and timestamps
RecordView(d) == {[id |-> m.ID, path |-> m.FilePath, uploadedAt |-> m.UploadedAt.wall,
                   expiresAt |-> m.ExpiresAt.wall] : m \in {d.Files[i] : i \in DOMAIN d.Files}}

\* a map[int64] key is written as its decimal string
ParseKey(k) == CHOOSE i \in 0..IdCap : ToString(i) = k

\* time.Time marshals to RFC 3339: the wall reading only
MarshalMeta(m) == [id |-> m.ID, file_path |-> m.FilePath, file_size |-> m.FileSize,
                   uploaded_at |-> m.UploadedAt.wall,
                   expires_at |-> m.ExpiresAt.wall, ttl |-> m.TTL]

UnmarshalMeta(j) == [ID |-> j.id, FilePath |-> j.file_path, FileSize |-> j.file_size,
                     UploadedAt |-> [wall |-> j.uploaded_at, mono |-> FALSE],
                     ExpiresAt |-> [wall |-> j.expires_at, mono |-> FALSE],
                     TTL |-> j.ttl]

\* the strings of the model that are not valid UTF-8: the one byte 0xFF
InvalidUTF8 == {"<ff>"}

\* json.Marshal writes a string coerced to valid UTF-8: every invalid byte
\* becomes the replacement character U+FFFD
EncodeString(str) == IF str \in InvalidUTF8 THEN "<U+FFFD>" ELSE str

\* a map[string]string: keys and values are written as JSON strings (no two
\* keys of the model are written as the same string)
MarshalConfig(c) ==
    [k \in {EncodeString(x) : x \in DOMAIN c} |->
        EncodeString(c[CHOOSE x \in DOMAIN c : EncodeString(x) = k])]

Marshal(d) == [files |-> [k \in {ToString(i) : i \in DOMAIN d.Files} |->
                            MarshalMeta(d.Files[ParseKey(k)])],
               next_id |-> d.NextID,
               config |-> MarshalConfig(d.Config)]

\* a variant: the counter is not read back
UnmarshalNoNextID(doc) ==
    [Files |-> [i \in {ParseKey(k) : k \in DOMAIN doc.files} |->
                  UnmarshalMeta(doc.files[ToString(i)])],
     NextID |-> 1,
     Config |-> doc.config]

Unmarshal(doc) == [Files |-> [i \in {ParseKey(k) : k \in DOMAIN doc.files} |->
                               UnmarshalMeta(doc.files[ToString(i)])],
                   NextID |-> doc.next_id,
                   Config |-> doc.config]

\* ------------------------------------------------------------- the disk
NoFile == [kind |-> "absent"]
Torn == [kind |-> "torn"]
Snap(doc) == [kind |-> "snap", doc |-> doc]

FilePath == "db"
\* a variant: the snapshot is written in place
TempPathInPlace == "db"
\* tempPath := d.filePath + ".tmp"
TempPath == "tmp"

\* ---------------------------------------------------------------- locks
NoOne == "none"
\* a variant: the write lock excludes no one
CanLockAlways == TRUE
\* d.mux.Lock() returns when no writer and no reader holds the lock
CanLock == mux.w = NoOne /\ mux.r = {}
\* a variant: the read lock is granted while a writer holds the lock
CanRLockAlways == TRUE
\* d.mux.RLock() returns when no writer holds the lock
CanRLock == mux.w = NoOne
FreeMux == [w |-> NoOne, r |-> {}]
\* a variant: the read lock is kept
RUnlockForgotten(m, who) == m
\* d.mux.RUnlock() by a holder of the read lock
RUnlock(m, who) == [m EXCEPT !.r = @ \ {who}]

\* triggerSave: a non-blocking send on the channel of capacity 1
triggerSave(ch) == IF ch < 1 THEN ch + 1 ELSE ch

\* a handler's path before GenerateFilePath has returned: the date directory
\* is read first, the file name second
NoName == [none |-> TRUE]
DateOnly(date) == [dir |-> date, name |-> NoName]
IdleUp == [pc |-> "idle", req |-> 0, path |-> NoData, ttl |-> 0, size |-> 0,
           at |-> 0, id |-> 0]
\* a cleanup goroutine: the records of its list still to process (todo), the
\* one in hand (cur), the list as GetExpiredFiles returned it (listed); inside
\* GetExpiredFiles, its clock reading (at, kept as history until the run
\* ends), the keys the loop has met (seen),
\* the slice built so far (out) and, as history, the store when the clock was
\* read (view); in runCleanup's loop, deletedCount and freedSpace and, as
\* history, the records whose os.Remove returned no error (removed)
IdleSw == [pc |-> "off", todo |-> {}, cur |-> NoData, listed |-> {}, at |-> 0,
           seen |-> {}, out |-> <<>>, view |-> NoData,
           deletedCount |-> 0, freedSpace |-> 0, removed |-> {}]
Idle == [pc |-> "idle", buf |-> NoData]
Off == [pc |-> "off", buf |-> NoData]

\* ----------------------------------------------------------------- Open
\* what Open holds after the load: Stat and ReadFile succeed on a present
\* file; Unmarshal fills the fresh struct, or leaves it as it is on an error
Loaded == IF disk[FilePath].kind = "snap"
          THEN Unmarshal(disk[FilePath].doc)
          ELSE FreshData

NeedsDefaults(d) == DOMAIN d.Config = {}

initDefaultConfig(d) == [d EXCEPT !.Config = DefaultConfig]

CleanChain == closedData # NoData

\* GetConfig: the value stored under the key, "" when there is none
GetConfig(d, key) == IF key \in DOMAIN d.Config THEN d.Config[key] ELSE ""

\* the integers the decimal strings of the model denote
IntLiterals == (-1 .. 2) \cup {80, 8080, 8760, 20000}

\* strconv.Atoi: the integer a decimal string denotes, or an error
Atoi(str) == IF \E i \in IntLiterals : ToString(i) = str
             THEN [ok |-> TRUE, n |-> CHOOSE i \in IntLiterals : ToString(i) = str]
             ELSE [ok |-> FALSE, n |-> 0]

\* GetConfigInt: 0 for a missing, empty or non-numeric value
GetConfigInt(d, key) ==
    IF GetConfig(d, key) = "" THEN 0
    ELSE IF Atoi(GetConfig(d, key)).ok THEN Atoi(GetConfig(d, key)).n ELSE 0

NoCfg == [none |-> TRUE]
NoResp == [handler |-> "none", req |-> [none |-> TRUE], status |-> 0]
\* what a handler answers: the request it answers and the HTTP status
Response(handler, req, status) == [handler |-> handler, req |-> req, status |-> status]

\* buildConfigFromDB: the two settings handleUpload reads
buildConfigFromDB(d) ==
    [DefaultTTL |-> GetConfigInt(d, "storage.default_ttl"),
     MaxTTL |-> GetConfigInt(d, "storage.max_ttl")]

Open ==
    /\ phase = "down"
    /\ phase' = "up"
    /\ data' = IF NeedsDefaults(Loaded) THEN initDefaultConfig(Loaded) ELSE Loaded
    /\ autoSave' = IF NeedsDefaults(Loaded) THEN triggerSave(0) ELSE 0
    /\ mux' = FreeMux
    /\ flusher' = Idle
    /\ closer' = Idle
    /\ inserted' = IF CleanChain THEN inserted ELSE {}
    /\ removedMeta' = IF CleanChain THEN removedMeta ELSE {}
    /\ closedData' = NoData
    /\ cfg' = buildConfigFromDB(data')
    /\ UNCHANGED <<resp, disk, files, dirs, now, up, sw, started, stopChan, randOk,
                   ioFaults, restarts, uploads, setConfigs>>

\* the process ends: os.Exit, a return from main, or a kill
Terminate ==
    /\ phase = "up"
    /\ restarts < MaxRestarts
    /\ restarts' = restarts + 1
    /\ phase' = "down"
    /\ data' = FreshData
    /\ autoSave' = 0
    /\ mux' = FreeMux
    /\ flusher' = Off
    /\ closer' = Off
    /\ up' = [u \in Uploaders |-> IdleUp]
    /\ sw' = [s \in Sweepers |-> IdleSw]
    /\ started' = FALSE
    /\ stopChan' = "open"
    /\ cfg' = NoCfg
    /\ UNCHANGED <<resp, disk, files, dirs, now, randOk, ioFaults, uploads, setConfigs,
                   inserted, removedMeta, closedData>>

\* ----------------------------------------------------------------- save
\* a variant: the temp file is written and left where it is
SaveRenameForgotten(d) == d
\* os.WriteFile opens the temp file with O_TRUNC: the file is there, empty
SaveOpen(d) == [d EXCEPT ![TempPath] = Torn]
\* the bytes are written
SaveWrite(d, buf) == [d EXCEPT ![TempPath] = Snap(buf)]
\* os.Rename(tempPath, d.filePath)
SaveRename(d) == [[d EXCEPT ![FilePath] = d[TempPath]] EXCEPT ![TempPath] = NoFile]

CanFail == ioFaults < MaxIoFaults

\* one step of save() by thread t (a [pc, buf] record); ok is the outcome of
\* the I/O call the step makes.  Yields the thread's next pc.
SaveStepPc(t, ok) ==
    CASE t.pc = "open" -> IF ok THEN "write" ELSE "unlock"
      [] t.pc = "write" -> IF ok THEN "rename" ELSE "unlock"
      [] t.pc = "rename" -> "unlock"

SaveStepDisk(t, ok) ==
    CASE t.pc = "open" -> IF ok THEN SaveOpen(disk) ELSE disk
      [] t.pc = "write" -> IF ok THEN SaveWrite(disk, t.buf) ELSE disk
      [] t.pc = "rename" -> IF ok THEN SaveRename(disk) ELSE disk

InSave(t) == t.pc \in {"open", "write", "rename"}

\* --------------------------------------------------------- autoSaveLoop
\* a variant: the loop has no periodic case
FlushTickNever == FALSE /\ UNCHANGED vars

\* case <-ticker.C
FlushTick ==
    /\ phase = "up" /\ flusher.pc = "idle"
    /\ flusher' = [flusher EXCEPT !.pc = "rlock"]
    /\ UNCHANGED <<cfg, resp, phase, data, mux, autoSave, closer, disk, files, dirs, now, up,
                   sw, started, stopChan, randOk, ioFaults, restarts, uploads, setConfigs,
                   inserted, removedMeta, closedData>>

\* case <-d.autoSave
FlushSignal ==
    /\ phase = "up" /\ flusher.pc = "idle"
    /\ autoSave > 0
    /\ autoSave' = autoSave - 1
    /\ flusher' = [flusher EXCEPT !.pc = "rlock"]
    /\ UNCHANGED <<cfg, resp, phase, data, mux, closer, disk, files, dirs, now, up,
                   sw, started, stopChan, randOk, ioFaults, restarts, uploads, setConfigs,
                   inserted, removedMeta, closedData>>

\* d.mux.RLock(), then save() marshals the state
FlushRLock ==
    /\ phase = "up" /\ flusher.pc = "rlock"
    /\ CanRLock
    /\ mux' = [mux EXCEPT !.r = @ \cup {"flusher"}]
    /\ flusher' = [pc |-> "open", buf |-> Marshal(data)]
    /\ UNCHANGED <<cfg, resp, phase, data, autoSave, closer, disk, files, dirs, now, up,
                   sw, started, stopChan, randOk, ioFaults, restarts, uploads, setConfigs,
                   inserted, removedMeta, closedData>>

FlushSave ==
    /\ phase = "up" /\ InSave(flusher)
    /\ \E ok \in BOOLEAN :
        /\ ok \/ CanFail
        /\ ioFaults' = IF ok THEN ioFaults ELSE ioFaults + 1
        /\ disk' = SaveStepDisk(flusher, ok)
        /\ flusher' = [flusher EXCEPT !.pc = SaveStepPc(flusher, ok)]
    /\ UNCHANGED <<cfg, resp, phase, data, mux, autoSave, closer, files, dirs, now, up,
                   sw, started, stopChan, randOk, restarts, uploads, setConfigs,
                   inserted, removedMeta, closedData>>

\* d.mux.RUnlock(); the error save() returned is dropped
FlushRUnlock ==
    /\ phase = "up" /\ flusher.pc = "unlock"
    /\ mux' = RUnlock(mux, "flusher")
    /\ flusher' = Idle
    /\ UNCHANGED <<cfg, resp, phase, data, autoSave, closer, disk, files, dirs, now, up,
                   sw, started, stopChan, randOk, ioFaults, restarts, uploads, setConfigs,
                   inserted, removedMeta, closedData>>

\* ---------------------------------------------------------------- Close
CloseLock ==
    /\ phase = "up" /\ closer.pc = "idle"
    /\ CanLock
    /\ mux' = [mux EXCEPT !.w = "closer"]
    /\ closer' = [pc |-> "open", buf |-> Marshal(data), ok |-> FALSE]
    /\ UNCHANGED <<cfg, resp, phase, data, autoSave, flusher, disk, files, dirs, now, up,
                   sw, started, stopChan, randOk, ioFaults, restarts, uploads, setConfigs,
                   inserted, removedMeta, closedData>>

CloseSave ==
    /\ phase = "up" /\ InSave(closer)
    /\ \E ok \in BOOLEAN :
        /\ ok \/ CanFail
        /\ ioFaults' = IF ok THEN ioFaults ELSE ioFaults + 1
        /\ disk' = SaveStepDisk(closer, ok)
        /\ closer' = [closer EXCEPT !.pc = SaveStepPc(closer, ok),
                                    !.ok = (closer.pc = "rename" /\ ok)]
    /\ UNCHANGED <<cfg, resp, phase, data, mux, autoSave, flusher, files, dirs, now, up,
                   sw, started, stopChan, randOk, restarts, uploads, setConfigs,
                   inserted, removedMeta, closedData>>

\* the deferred d.mux.Unlock(); Close returns save's error
CloseUnlock ==
    /\ phase = "up" /\ closer.pc = "unlock"
    /\ mux' = [mux EXCEPT !.w = NoOne]
    /\ closer' = [pc |-> "closed", buf |-> NoData]
    /\ closedData' = IF closer.ok THEN data ELSE NoData
    /\ UNCHANGED <<cfg, resp, phase, data, autoSave, flusher, disk, files, dirs, now, up,
                   sw, started, stopChan, randOk, ioFaults, restarts, uploads, setConfigs,
                   inserted, removedMeta>>

\* ------------------------------------------------------------ SetConfig
SetConfigData(d, k, v) ==
    [d EXCEPT !.Config = [x \in DOMAIN d.Config \cup {k} |->
                            IF x = k THEN v ELSE d.Config[x]]]

SetConfig ==
    /\ phase = "up"
    /\ setConfigs < MaxSetConfig
    /\ CanLock
    /\ \E k \in ConfigKeys, v \in ConfigValues :
        data' = SetConfigData(data, k, v)
    /\ autoSave' = triggerSave(autoSave)
    /\ setConfigs' = setConfigs + 1
    /\ closedData' = NoData
    /\ UNCHANGED <<cfg, resp, phase, mux, flusher, closer, disk, files, dirs, now, up,
                   sw, started, stopChan, randOk, ioFaults, restarts, uploads,
                   inserted, removedMeta>>

\* the keys and the values of `httpserver set <key> <value>`: a value is any
\* byte string the shell passes
CommandKeys == {"server.port", "storage.max_ttl"}
CommandValues == {"80", "<ff>"}

\* handleSetCommand: SetConfig(key, value), then "Config updated" is printed
SetCommand ==
    /\ phase = "up"
    /\ setConfigs < MaxSetCommands
    /\ CanLock
    /\ \E k \in CommandKeys, v \in CommandValues :
        /\ data' = SetConfigData(data, k, v)
        /\ resp' = Response("set", [n |-> setConfigs + 1, key |-> k, value |-> v], 0)
    /\ autoSave' = triggerSave(autoSave)
    /\ setConfigs' = setConfigs + 1
    /\ closedData' = NoData
    /\ UNCHANGED <<cfg, phase, mux, flusher, closer, disk, files, dirs, now, up,
                   sw, started, stopChan, randOk, ioFaults, restarts, uploads,
                   inserted, removedMeta>>

\* --------------------------------------------------------------- naming
\* time.Now().Format("20060102"): the calendar day of a clock reading
GenerateDateDir(t) == t \div DayTicks

\* rand.Read succeeded: 16 fresh bytes (crypto/rand's contract), named by the
\* request that drew them; it failed: the fallback,
\* fmt.Sprintf("%016x", now.UnixNano())
RandomStr(t, draw, ok) == IF ok THEN <<"rand", draw>> ELSE <<"time", t>>

\* GenerateFileName: date and time of day of its own clock reading, then the
\* random part
GenerateFileName(t, draw, ok) ==
    [date |-> GenerateDateDir(t), stamp |-> t, rnd |-> RandomStr(t, draw, ok)]

\* filepath.Join(date, fileName)
JoinPath(date, name) == [dir |-> date, name |-> name]

\* ParseDateFromPath: the first component
ParseDateFromPath(p) == p.dir

\* ---------------------------------------------------------- handleUpload
\* ttl := s.cfg.Storage.DefaultTTL, or strconv.Atoi of the form value
ParseTTL(form, c) == IF form = "" THEN [ok |-> TRUE, n |-> c.DefaultTTL] ELSE Atoi(form)

\* a variant: no upper limit
ValidTTLNoMax(ttl, c) == ~(ttl < 1)
\* the TTL passes `if ttl < 1 || ttl > s.cfg.Storage.MaxTTL`
ValidTTL(ttl, c) == ~(ttl < 1 \/ ttl > c.MaxTTL)

\* handleUpload up to the first clock reading of naming.GenerateFilePath, for
\* a request whose form value "ttl" is form: a TTL that does not parse or is
\* out of range is answered with 400 and the handler returns; else
\* GenerateDateDir reads the date
UploadBeginWith(u, form) ==
    /\ up[u].pc = "idle"
    /\ uploads < MaxUploads
    /\ uploads' = uploads + 1
    /\ IF ParseTTL(form, cfg).ok /\ ValidTTL(ParseTTL(form, cfg).n, cfg)
       THEN /\ up' = [up EXCEPT ![u] = [pc |-> "name", req |-> uploads + 1,
                                        path |-> DateOnly(GenerateDateDir(now)),
                                        ttl |-> ParseTTL(form, cfg).n,
                                        size |-> 0, at |-> 0, id |-> 0]]
            /\ resp' = resp
       ELSE /\ up' = up
            /\ resp' = Response("upload", [n |-> uploads + 1, form |-> form], 400)
    /\ UNCHANGED <<cfg, phase, data, mux, autoSave, flusher, closer, disk, files, dirs,
                   now, sw, started, stopChan, randOk, ioFaults, restarts, setConfigs,
                   inserted, removedMeta, closedData>>

\* a request with a TTL in range
UploadBegin(u) ==
    /\ phase = "up"
    /\ \E form \in {ToString(t) : t \in 1..MaxTTLHours} : UploadBeginWith(u, form)

\* the form values of "ttl": none, not a number, zero, a negative one, one
\* hour, the default limit and beyond, a number of hours whose Duration
\* overflows
TTLForms == {"", "x", "0", "-1", "1", "8760", "20000"}

\* a request with any of these
UploadBeginAny(u) ==
    /\ phase = "up"
    /\ \E form \in TTLForms : UploadBeginWith(u, form)

\* GenerateFileName and the join
UploadName(u) ==
    /\ phase = "up" /\ up[u].pc = "name"
    /\ \E ok \in BOOLEAN :
        /\ ok \/ ~randOk
        /\ up' = [up EXCEPT ![u].pc = "mkdir",
                            ![u].path = JoinPath(up[u].path.dir,
                                           GenerateFileName(now, up[u].req, ok))]
    /\ UNCHANGED <<cfg, resp, phase, data, mux, autoSave, flusher, closer, disk, files, dirs,
                   now, sw, started, stopChan, randOk, ioFaults, restarts, uploads, setConfigs,
                   inserted, removedMeta, closedData>>

\* os.MkdirAll(fullDirPath)
UploadMkdir(u) ==
    /\ phase = "up" /\ up[u].pc = "mkdir"
    /\ \E ok \in BOOLEAN :
        /\ ok \/ CanFail
        /\ ioFaults' = IF ok THEN ioFaults ELSE ioFaults + 1
        /\ dirs' = IF ok THEN dirs \cup {ParseDateFromPath(up[u].path)} ELSE dirs
        /\ resp' = IF ok THEN resp ELSE Response("upload", [n |-> up[u].req, ttl |-> up[u].ttl], 500)
        /\ up' = [up EXCEPT ![u] = IF ok THEN [@ EXCEPT !.pc = "create"] ELSE IdleUp]
    /\ UNCHANGED <<cfg, phase, data, mux, autoSave, flusher, closer, disk, files,
                   now, sw, started, stopChan, randOk, restarts, uploads, setConfigs,
                   inserted, removedMeta, closedData>>

\* os.Create(fullPath): fails when the directory is not there
UploadCreate(u) ==
    /\ phase = "up" /\ up[u].pc = "create"
    /\ \E ok \in BOOLEAN :
        /\ ok \/ CanFail \/ ParseDateFromPath(up[u].path) \notin dirs
        /\ ok => ParseDateFromPath(up[u].path) \in dirs
        /\ ioFaults' = IF ok \/ ParseDateFromPath(up[u].path) \notin dirs
                       THEN ioFaults ELSE ioFaults + 1
        /\ files' = IF ok THEN files \cup {up[u].path} ELSE files
        /\ resp' = IF ok THEN resp ELSE Response("upload", [n |-> up[u].req, ttl |-> up[u].ttl], 500)
        /\ up' = [up EXCEPT ![u] = IF ok THEN [@ EXCEPT !.pc = "copy"] ELSE IdleUp]
    /\ UNCHANGED <<cfg, phase, data, mux, autoSave, flusher, closer, disk, dirs,
                   now, sw, started, stopChan, randOk, restarts, uploads, setConfigs,
                   inserted, removedMeta, closedData>>

\* the sizes, in bytes, of the bodies that requests carry
BodySizes == {500}

\* size, err := io.Copy(dst, file), then uploadedAt := time.Now()
UploadCopy(u) ==
    /\ phase = "up" /\ up[u].pc = "copy"
    /\ \E ok \in BOOLEAN, size \in BodySizes :
        /\ ok \/ CanFail
        /\ ioFaults' = IF ok THEN ioFaults ELSE ioFaults + 1
        /\ resp' = IF ok THEN resp ELSE Response("upload", [n |-> up[u].req, ttl |-> up[u].ttl], 500)
        /\ up' = [up EXCEPT ![u] = IF ok THEN [@ EXCEPT !.pc = "lock", !.size = size,
                                                        !.at = now]
                                   ELSE IdleUp]
    /\ UNCHANGED <<cfg, phase, data, mux, autoSave, flusher, closer, disk, files, dirs,
                   now, sw, started, stopChan, randOk, restarts, uploads, setConfigs,
                   inserted, removedMeta, closedData>>

\* the metadata handleUpload builds
NewMetadata(path, size, at, ttl) ==
    [ID |-> 0, FilePath |-> path, FileSize |-> size, UploadedAt |-> Instant(at),
     ExpiresAt |-> AddDuration(Instant(at), DurationHours(ttl)), TTL |-> ttl]

\* SaveFileMetadata: d.mux.Lock(); meta.ID = d.data.NextID
UploadLock(u) ==
    /\ phase = "up" /\ up[u].pc = "lock"
    /\ CanLock
    /\ mux' = [mux EXCEPT !.w = u]
    /\ up' = [up EXCEPT ![u].pc = "store", ![u].id = data.NextID]
    /\ UNCHANGED <<cfg, resp, phase, data, autoSave, flusher, closer, disk, files, dirs,
                   now, sw, started, stopChan, randOk, ioFaults, restarts, uploads, setConfigs,
                   inserted, removedMeta, closedData>>

\* a variant: the record is not stored
SaveFileMetadataLost(d, meta, id) == [d EXCEPT !.NextID = @ + 1]
\* a variant: the counter is not advanced
SaveFileMetadataSameId(d, meta, id) ==
    [d EXCEPT !.Files = [i \in DOMAIN d.Files \cup {id} |->
                           IF i = id THEN [meta EXCEPT !.ID = id] ELSE d.Files[i]]]

\* d.data.NextID++; d.data.Files[meta.ID] = meta
SaveFileMetadata(d, meta, id) ==
    [d EXCEPT !.NextID = @ + 1,
              !.Files = [i \in DOMAIN d.Files \cup {id} |->
                           IF i = id THEN [meta EXCEPT !.ID = id] ELSE d.Files[i]]]

\* ... d.triggerSave(); the deferred d.mux.Unlock()
UploadStore(u) ==
    /\ phase = "up" /\ up[u].pc = "store"
    /\ data' = SaveFileMetadata(data, NewMetadata(up[u].path, up[u].size, up[u].at, up[u].ttl),
                                up[u].id)
    /\ autoSave' = triggerSave(autoSave)
    /\ mux' = [mux EXCEPT !.w = NoOne]
    /\ inserted' = inserted \cup {<<up[u].id, up[u].path>>}
    /\ closedData' = NoData
    /\ resp' = Response("upload", [n |-> up[u].req, ttl |-> up[u].ttl], 200)
    /\ up' = [up EXCEPT ![u] = IdleUp]
    /\ UNCHANGED <<cfg, phase, flusher, closer, disk, files, dirs,
                   now, sw, started, stopChan, randOk, ioFaults, restarts, uploads, setConfigs,
                   removedMeta>>

\* ------------------------------- SaveFileMetadata, statement by statement
\* d.data.NextID++
UploadAdvance(u) ==
    /\ phase = "up" /\ up[u].pc = "store"
    /\ data' = [data EXCEPT !.NextID = @ + 1]
    /\ closedData' = NoData
    /\ up' = [up EXCEPT ![u].pc = "insert"]
    /\ UNCHANGED <<cfg, resp, phase, mux, autoSave, flusher, closer, disk, files, dirs,
                   now, sw, started, stopChan, randOk, ioFaults, restarts, uploads,
                   setConfigs, inserted, removedMeta>>

\* d.data.Files[meta.ID] = meta; d.triggerSave(); the deferred d.mux.Unlock()
UploadInsert(u) ==
    /\ phase = "up" /\ up[u].pc = "insert"
    /\ data' = [data EXCEPT !.Files = [i \in DOMAIN data.Files \cup {up[u].id} |->
                    IF i = up[u].id
                    THEN [NewMetadata(up[u].path, up[u].size, up[u].at, up[u].ttl)
                            EXCEPT !.ID = up[u].id]
                    ELSE data.Files[i]]]
    /\ autoSave' = triggerSave(autoSave)
    /\ mux' = [mux EXCEPT !.w = NoOne]
    /\ inserted' = inserted \cup {<<up[u].id, up[u].path>>}
    /\ resp' = Response("upload", [n |-> up[u].req, ttl |-> up[u].ttl], 200)
    /\ up' = [up EXCEPT ![u] = IdleUp]
    /\ UNCHANGED <<cfg, phase, flusher, closer, disk, files, dirs, closedData,
                   now, sw, started, stopChan, randOk, ioFaults, restarts, uploads,
                   setConfigs, removedMeta>>

\* ----------------------------------------------------------- handleFiles
\* handleFiles for a request on the path of a stored file or of a record:
\* any method but GET is answered 405, a path with no file 404, and the file
\* is served otherwise; nothing of the store or of the tree is touched
handleFiles ==
    /\ phase = "up"
    /\ \E method \in {"GET", "DELETE"},
          p \in files \cup {data.Files[i].FilePath : i \in DOMAIN data.Files} :
        resp' = Response("files", [method |-> method, path |-> p],
                         IF method # "GET" THEN 405
                         ELSE IF p \notin files THEN 404 ELSE 200)
    /\ UNCHANGED <<cfg, phase, data, mux, autoSave, flusher, closer, disk, files, dirs,
                   now, up, sw, started, stopChan, randOk, ioFaults, restarts, uploads,
                   setConfigs, inserted, removedMeta, closedData>>

\* ------------------------------------------------------ CleanupManager
Records(d) == {d.Files[i] : i \in DOMAIN d.Files}

Range(l) == {l[i] : i \in DOMAIN l}

\* the orders in which a range over a map with the keys S can meet them
IterationOrders(S) ==
    {o \in [1..Cardinality(S) -> S] :
        \A i, j \in 1..Cardinality(S) : i # j => o[i] # o[j]}

\* the loop of GetExpiredFiles over the keys in the order met: a record
\* whose ExpiresAt is before now is appended
RECURSIVE AppendExpired(_, _, _)
AppendExpired(d, t, order) ==
    IF Len(order) = 0 THEN <<>>
    ELSE (IF Before(d.Files[Head(order)].ExpiresAt, Instant(t))
          THEN <<d.Files[Head(order)]>> ELSE <<>>)
         \o AppendExpired(d, t, Tail(order))

\* GetExpiredFiles when time.Now() reads t: the slices it can return, one
\* for each order of the map iteration
GetExpiredFiles(d, t) ==
    {AppendExpired(d, t, o) : o \in IterationOrders(DOMAIN d.Files)}

\* a variant: the date is taken from the file name
HasDatePrefixOfName(p, date) == p.name.date = date
\* strings.HasPrefix(filepath.ToSlash(meta.FilePath), date+"/"): the path is
\* its directory, a slash and its file name, and a date has eight digits
HasDatePrefix(p, date) == p.dir = date

\* the loop of ListFilesByDate over the keys in the order met
RECURSIVE AppendByDate(_, _, _)
AppendByDate(d, date, order) ==
    IF Len(order) = 0 THEN <<>>
    ELSE (IF HasDatePrefix(d.Files[Head(order)].FilePath, date)
          THEN <<d.Files[Head(order)]>> ELSE <<>>)
         \o AppendByDate(d, date, Tail(order))

\* ListFilesByDate: the slices it can return, one for each order of the map
\* iteration
ListFilesByDate(d, date) ==
    {AppendByDate(d, date, o) : o \in IterationOrders(DOMAIN d.Files)}

\* ListAllDates: parts[0] of every path goes into dateMap, and the keys of
\* dateMap are appended in the order a range over it meets them
ListAllDates(d) ==
    IterationOrders({d.Files[i].FilePath.dir : i \in DOMAIN d.Files})

\* GetFileMetadata: the first record the map iteration meets with this path;
\* the set of the records it can return (none: nil)
GetFileMetadata(d, p) == {m \in Records(d) : m.FilePath = p}

\* a variant: nothing is deleted
DeleteFileMetadataNoop(d, p) == {d}

\* DeleteFileMetadata: the first record the map iteration meets with this
\* path is deleted; the set of the states it can leave
DeleteFileMetadata(d, p) ==
    LET hit == {i \in DOMAIN d.Files : d.Files[i].FilePath = p}
    IN  IF hit = {} THEN {d}
        ELSE {[d EXCEPT !.Files = [i \in DOMAIN d.Files \ {h} |-> d.Files[i]]] :
                h \in hit}

\* where a run of runCleanup ends: the goroutine of the initial run exits, the
\* loop goes back to its select
AfterSweep(s) == IF s = "initial" THEN "done" ELSE "wait"

\* Start: go cm.runCleanup(), and the ticker loop
Start ==
    /\ phase = "up" /\ ~started
    /\ started' = TRUE
    /\ sw' = [sw EXCEPT !["initial"].pc = "list", !["ticker"].pc = "wait"]
    /\ UNCHANGED <<cfg, resp, phase, data, mux, autoSave, flusher, closer, disk, files, dirs,
                   now, up, stopChan, randOk, ioFaults, restarts, uploads, setConfigs,
                   inserted, removedMeta, closedData>>

\* case <-ticker.C
SweepTick ==
    /\ phase = "up" /\ sw["ticker"].pc = "wait"
    /\ sw' = [sw EXCEPT !["ticker"].pc = "list"]
    /\ UNCHANGED <<cfg, resp, phase, data, mux, autoSave, flusher, closer, disk, files, dirs,
                   now, up, started, stopChan, randOk, ioFaults, restarts, uploads, setConfigs,
                   inserted, removedMeta, closedData>>

\* expiredFiles := cm.db.GetExpiredFiles(), under the read lock
SweepList(s) ==
    /\ phase = "up" /\ sw[s].pc = "list"
    /\ CanRLock
    /\ \E expired \in GetExpiredFiles(data, now) :
        sw' = [sw EXCEPT ![s] = IF Len(expired) = 0
                                THEN [IdleSw EXCEPT !.pc = AfterSweep(s)]
                                ELSE [IdleSw EXCEPT !.pc = "remove",
                                                    !.todo = Range(expired),
                                                    !.listed = Range(expired),
                                                    !.at = now]]
    /\ UNCHANGED <<cfg, resp, phase, data, mux, autoSave, flusher, closer, disk, files, dirs,
                   now, up, started, stopChan, randOk, ioFaults, restarts, uploads, setConfigs,
                   inserted, removedMeta, closedData>>

\* a variant: an error of os.Remove ends the run
AfterRemoveAbort(s, ok) == IF ok THEN "delmeta" ELSE AfterSweep(s)
\* where the loop goes after os.Remove, whatever it returned: on to
\* DeleteFileMetadata
AfterRemove(s, ok) == "delmeta"

\* os.Remove(fullPath) of the next record of the list
SweepRemove(s) ==
    /\ phase = "up" /\ sw[s].pc = "remove"
    /\ \E file \in sw[s].todo, ok \in BOOLEAN :
        /\ ok \/ CanFail \/ file.FilePath \notin files
        /\ ok => file.FilePath \in files
        /\ ioFaults' = IF ok \/ file.FilePath \notin files
                       THEN ioFaults ELSE ioFaults + 1
        /\ files' = IF ok THEN files \ {file.FilePath} ELSE files
        /\ sw' = [sw EXCEPT ![s].pc = AfterRemove(s, ok), ![s].cur = file,
                            ![s].deletedCount = IF ok THEN @ + 1 ELSE @,
                            ![s].freedSpace = IF ok THEN @ + file.FileSize ELSE @,
                            ![s].removed = IF ok THEN @ \cup {file} ELSE @]
    /\ UNCHANGED <<cfg, resp, phase, data, mux, autoSave, flusher, closer, disk, dirs,
                   now, up, started, stopChan, randOk, restarts, uploads, setConfigs,
                   inserted, removedMeta, closedData>>

\* cm.db.DeleteFileMetadata(file.FilePath), under the write lock
SweepDelMeta(s) ==
    /\ phase = "up" /\ sw[s].pc = "delmeta"
    /\ CanLock
    /\ data' \in DeleteFileMetadata(data, sw[s].cur.FilePath)
    /\ autoSave' = IF data' # data THEN triggerSave(autoSave) ELSE autoSave
    /\ removedMeta' = IF data' # data THEN removedMeta \cup {sw[s].cur.FilePath}
                      ELSE removedMeta
    /\ closedData' = IF data' # data THEN NoData ELSE closedData
    /\ sw' = [sw EXCEPT ![s].pc = "rmdir"]
    /\ UNCHANGED <<cfg, resp, phase, mux, flusher, closer, disk, files, dirs,
                   now, up, started, stopChan, randOk, ioFaults, restarts, uploads, setConfigs,
                   inserted>>

\* a variant: os.RemoveAll
RemoveDirAll(ds, fs, dir) == ds \ {dir}
\* os.Remove(dirPath): the directory goes if it is there and holds nothing
RemoveDir(ds, fs, dir) ==
    IF dir \in ds /\ {f \in fs : ParseDateFromPath(f) = dir} = {}
    THEN ds \ {dir} ELSE ds

\* removeEmptyDir with nothing between its two calls: os.Remove of the
\* directory when ReadDir found no entry in it
removeEmptyDir(ds, fs, dir) ==
    IF {f \in fs : ParseDateFromPath(f) = dir} = {}
    THEN RemoveDir(ds, fs, dir) ELSE ds

\* the loop of formatBytes: for n := b / unit; n >= unit; n /= unit
RECURSIVE UnitLoop(_, _, _)
UnitLoop(n, div, exp) ==
    IF n >= 1024 THEN UnitLoop(n \div 1024, div * 1024, exp + 1)
    ELSE [div |-> div, exp |-> exp]

\* fmt's %.1f of num/den, in tenths: the nearest, a tie going to the even one
Tenths(num, den) ==
    LET q == (10 * num) \div den
        r == (10 * num) % den
    IN  IF 2 * r > den \/ (2 * r = den /\ q % 2 = 1) THEN q + 1 ELSE q

\* formatBytes: "0 B" below one unit, else one decimal and the unit letter
formatBytes(b) ==
    IF b < 1024 THEN "0 B"
    ELSE LET u == UnitLoop(b \div 1024, 1024, 0)
             t == Tenths(b, u.div)
         IN  ToString(t \div 10) \o "." \o ToString(t % 10) \o " "
                \o <<"K", "M", "G", "T", "P", "E">>[u.exp + 1] \o "B"

\* the summary runCleanup logs after its loop: "Cleanup complete: deleted %d
\* files, freed %s"
Summary(s) == [deleted |-> sw[s].deletedCount,
               freed |-> formatBytes(sw[s].freedSpace)]

\* the loop takes the next record of the list, or the run ends
Advance(s) ==
    LET rest == sw[s].todo \ {sw[s].cur}
    IN  IF rest = {} THEN [IdleSw EXCEPT !.pc = AfterSweep(s)]
        ELSE [sw[s] EXCEPT !.pc = "remove", !.todo = rest, !.cur = NoData]

SweepRmdir(s) ==
    /\ phase = "up" /\ sw[s].pc = "rmdir"
    /\ dirs' = removeEmptyDir(dirs, files, ParseDateFromPath(sw[s].cur.FilePath))
    /\ sw' = [sw EXCEPT ![s] = Advance(s)]
    /\ UNCHANGED <<cfg, resp, phase, data, mux, autoSave, flusher, closer, disk, files,
                   now, up, started, stopChan, randOk, ioFaults, restarts, uploads, setConfigs,
                   inserted, removedMeta, closedData>>

\* ---------------------------------- removeEmptyDir, statement by statement
\* entries, err := os.ReadDir(dirPath): an error (the directory is not
\* there) or an entry found ends the call
DirRead(s) ==
    /\ phase = "up" /\ sw[s].pc = "rmdir"
    /\ LET d == ParseDateFromPath(sw[s].cur.FilePath)
       IN  sw' = [sw EXCEPT ![s] =
                    IF d \in dirs /\ {f \in files : ParseDateFromPath(f) = d} = {}
                    THEN [sw[s] EXCEPT !.pc = "rmdir2"]
                    ELSE Advance(s)]
    /\ UNCHANGED <<cfg, resp, phase, data, mux, autoSave, flusher, closer, disk, files, dirs,
                   now, up, started, stopChan, randOk, ioFaults, restarts, uploads,
                   setConfigs, inserted, removedMeta, closedData>>

\* return os.Remove(dirPath)
DirRemove(s) ==
    /\ phase = "up" /\ sw[s].pc = "rmdir2"
    /\ dirs' = RemoveDir(dirs, files, ParseDateFromPath(sw[s].cur.FilePath))
    /\ sw' = [sw EXCEPT ![s] = Advance(s)]
    /\ UNCHANGED <<cfg, resp, phase, data, mux, autoSave, flusher, closer, disk, files,
                   now, up, started, stopChan, randOk, ioFaults, restarts, uploads,
                   setConfigs, inserted, removedMeta, closedData>>

\* ------------------------------------- GetExpiredFiles, statement by statement
\* d.mux.RLock(); now := time.Now()
ScanRLock(s) ==
    /\ phase = "up" /\ sw[s].pc = "list"
    /\ CanRLock
    /\ mux' = [mux EXCEPT !.r = @ \cup {s}]
    /\ sw' = [sw EXCEPT ![s].pc = "scan", ![s].at = now, ![s].view = data]
    /\ UNCHANGED <<cfg, resp, phase, data, autoSave, flusher, closer, disk, files, dirs,
                   now, up, started, stopChan, randOk, ioFaults, restarts, uploads,
                   setConfigs, inserted, removedMeta, closedData>>

\* one iteration of the loop over d.data.Files
ScanVisit(s) ==
    /\ phase = "up" /\ sw[s].pc = "scan"
    /\ \E i \in DOMAIN data.Files \ sw[s].seen :
        sw' = [sw EXCEPT ![s].seen = @ \cup {i},
                         ![s].out = IF Before(data.Files[i].ExpiresAt,
                                              Instant(sw[s].at))
                                    THEN Append(@, data.Files[i]) ELSE @]
    /\ UNCHANGED <<cfg, resp, phase, data, mux, autoSave, flusher, closer, disk, files, dirs,
                   now, up, started, stopChan, randOk, ioFaults, restarts, uploads,
                   setConfigs, inserted, removedMeta, closedData>>

\* the loop has met every key: the deferred d.mux.RUnlock(), and runCleanup
\* goes on with the slice returned
ScanRUnlock(s) ==
    /\ phase = "up" /\ sw[s].pc = "scan"
    /\ DOMAIN data.Files \ sw[s].seen = {}
    /\ mux' = RUnlock(mux, s)
    /\ sw' = [sw EXCEPT ![s] = IF Len(sw[s].out) = 0
                                THEN [IdleSw EXCEPT !.pc = AfterSweep(s)]
                                ELSE [IdleSw EXCEPT !.pc = "remove",
                                                    !.todo = Range(sw[s].out),
                                                    !.listed = Range(sw[s].out),
                                                    !.at = sw[s].at]]
    /\ UNCHANGED <<cfg, resp, phase, data, autoSave, flusher, closer, disk, files, dirs,
                   now, up, started, stopChan, randOk, ioFaults, restarts, uploads,
                   setConfigs, inserted, removedMeta, closedData>>

ScanStep(s) ==
    \/ ScanRLock(s)
    \/ ScanVisit(s)
    \/ ScanRUnlock(s)

\* ----------------------------------------------------------------- Stop
\* Stop: close(cm.stopChan), and nothing else
Stop ==
    /\ phase = "up" /\ started
    /\ stopChan = "open"
    /\ stopChan' = "closed"
    /\ UNCHANGED <<cfg, resp, phase, data, mux, autoSave, flusher, closer, disk, files, dirs,
                   now, up, sw, started, randOk, ioFaults, restarts, uploads,
                   setConfigs, inserted, removedMeta, closedData>>

\* case <-cm.stopChan: the loop returns
SweepStop ==
    /\ phase = "up" /\ sw["ticker"].pc = "wait"
    /\ stopChan = "closed"
    /\ sw' = [sw EXCEPT !["ticker"].pc = "exited"]
    /\ UNCHANGED <<cfg, resp, phase, data, mux, autoSave, flusher, closer, disk, files, dirs,
                   now, up, started, stopChan, randOk, ioFaults, restarts, uploads,
                   setConfigs, inserted, removedMeta, closedData>>

\* handleShutdown, on SIGINT or SIGTERM: cleanupMgr.Stop(), then os.Exit(0);
\* the process is gone, whatever its goroutines were doing
handleShutdown == started /\ Terminate

\* -------------------------------------------------- runCleanup, run alone
\* a variant: the record stays when os.Remove returned an error
CleanupOneKeepOnError(st, file, fails) ==
    LET removed == file.FilePath \in st.files /\ file.FilePath \notin fails
        fs == IF removed THEN st.files \ {file.FilePath} ELSE st.files
    IN  {[data |-> d, files |-> fs,
          dirs |-> removeEmptyDir(st.dirs, fs, ParseDateFromPath(file.FilePath))] :
           d \in IF file.FilePath \in st.files /\ file.FilePath \in fails
                 THEN {st.data}
                 ELSE DeleteFileMetadata(st.data, file.FilePath)}

\* the body of runCleanup's loop for one record, nothing else running:
\* st is [data, files, dirs], fails the paths for which os.Remove returns an
\* error other than "not exist"; the states it can leave
CleanupOne(st, file, fails) ==
    LET removed == file.FilePath \in st.files /\ file.FilePath \notin fails
        fs == IF removed THEN st.files \ {file.FilePath} ELSE st.files
    IN  {[data |-> d, files |-> fs,
          dirs |-> removeEmptyDir(st.dirs, fs, ParseDateFromPath(file.FilePath))] :
           d \in DeleteFileMetadata(st.data, file.FilePath)}

\* the loop over the slice GetExpiredFiles returned
RECURSIVE CleanupLoop(_, _, _)
CleanupLoop(sts, list, fails) ==
    IF Len(list) = 0 THEN sts
    ELSE CleanupLoop(UNION {CleanupOne(st, Head(list), fails) : st \in sts},
                     Tail(list), fails)

\* runCleanup from its first statement to its last when the clock reads t
runCleanup(st, t, fails) ==
    UNION {CleanupLoop({st}, l, fails) : l \in GetExpiredFiles(st.data, t)}

\* the paths a run lists when the clock reads t
ListedPaths(d, t) == {m.FilePath : m \in {x \in Records(d) : Before(x.ExpiresAt, Instant(t))}}

Tree == [data |-> data, files |-> files, dirs |-> dirs]

\* RunOnce: a run of runCleanup that no other goroutine interleaves with
RunOnce ==
    /\ phase = "up"
    /\ CanLock
    /\ \E fails \in SUBSET (files \cap ListedPaths(data, now)) :
        /\ ioFaults + Cardinality(fails) <= MaxIoFaults
        /\ ioFaults' = ioFaults + Cardinality(fails)
        /\ \E st \in runCleanup(Tree, now, fails) :
            /\ data' = st.data
            /\ files' = st.files
            /\ dirs' = st.dirs
    /\ autoSave' = IF data' # data THEN triggerSave(autoSave) ELSE autoSave
    /\ removedMeta' = removedMeta \cup
                         {p \in ListedPaths(data, now) : GetFileMetadata(data', p) = {}}
    /\ closedData' = IF data' # data THEN NoData ELSE closedData
    /\ UNCHANGED <<cfg, resp, phase, mux, flusher, closer, disk, now, up, sw, started,
                   stopChan, randOk, restarts, uploads, setConfigs, inserted>>

\* ------------------------------------------------------------ the clock
Tick ==
    /\ now < MaxTime
    /\ now' = now + 1
    /\ UNCHANGED <<cfg, resp, phase, data, mux, autoSave, flusher, closer, disk, files, dirs,
                   up, sw, started, stopChan, randOk, ioFaults, restarts, uploads, setConfigs,
                   inserted, removedMeta, closedData>>

\* the state before a process starts, on a disk whose snapshot file is db and
\* whose storage tree holds the files fs in the directories ds, when the
\* clock reads t and n uploads have been made, in an environment where
\* crypto/rand works or not
InitAfter(db, rnd, fs, ds, t, n) ==
    /\ phase = "down"
    /\ data = FreshData
    /\ mux = FreeMux
    /\ autoSave = 0
    /\ flusher = Off
    /\ closer = Off
    /\ disk = [db |-> db, tmp |-> NoFile]
    /\ files = fs
    /\ dirs = ds
    /\ now = t
    /\ up = [u \in Uploaders |-> IdleUp]
    /\ sw = [s \in Sweepers |-> IdleSw]
    /\ started = FALSE
    /\ stopChan = "open"
    /\ randOk = rnd
    /\ ioFaults = 0
    /\ restarts = 0
    /\ uploads = n
    /\ setConfigs = 0
    /\ inserted = {}
    /\ removedMeta = {}
    /\ closedData = NoData
    /\ cfg = NoCfg
    /\ resp = NoResp

\* the state before the first process starts: an empty storage tree, the
\* clock at its first reading
InitWith(db, rnd) == InitAfter(db, rnd, {}, {}, 0, 0)

\* what a server leaves that stored one upload of ttl 1 h at the first clock
\* reading, flushed and ended: the path of the file, and the snapshot
LeftPath == JoinPath(GenerateDateDir(0), GenerateFileName(0, 1, TRUE))
LeftSnapshot ==
    Snap(Marshal(SaveFileMetadata(initDefaultConfig(FreshData),
                                  NewMetadata(LeftPath, 500, 0, 1), 1)))

\* a server starts on what that one left, when the clock reads MaxTime and the
\* record has expired
InitLeftover ==
    InitAfter(LeftSnapshot, TRUE, {LeftPath}, {GenerateDateDir(0)}, MaxTime, 1)

\* the first process finds no snapshot file, or one that does not parse
Init == \E db \in {NoFile, Torn} : InitWith(db, TRUE)

\* a first run
InitFirstRun == InitWith(NoFile, TRUE)

\* the snapshot that `httpserver set key value` leaves when it is the first
\* run: Open seeds the defaults, SetConfig stores the value, the deferred Close
\* saves
SetCommandSnapshot(key, value) ==
    Snap(Marshal(SetConfigData(initDefaultConfig(FreshData), key, value)))

\* a first run, or the first run of the server after
\* `httpserver set storage.max_ttl 20000`
InitHttp ==
    \E db \in {NoFile, SetCommandSnapshot("storage.max_ttl", "20000")} :
        InitWith(db, TRUE)

\* a first run where crypto/rand.Read returns an error
InitNoEntropy == InitWith(NoFile, FALSE)

StoreStep ==
    \/ Open
    \/ Terminate
    \/ FlushTick
    \/ FlushSignal
    \/ FlushRLock
    \/ FlushSave
    \/ FlushRUnlock
    \/ CloseLock
    \/ CloseSave
    \/ CloseUnlock
    \/ SetConfig

\* handleUpload from GenerateFileName on
UploadRest(u) ==
    \/ UploadName(u)
    \/ UploadMkdir(u)
    \/ UploadCreate(u)
    \/ UploadCopy(u)
    \/ UploadLock(u)
    \/ UploadStore(u)

UploadStep(u) ==
    \/ UploadBegin(u)
    \/ UploadRest(u)

SweepStep(s) ==
    \/ SweepList(s)
    \/ SweepRemove(s)
    \/ SweepDelMeta(s)
    \/ SweepRmdir(s)

\* the store, its persistence and concurrent uploads, with process restarts
Next ==
    \/ StoreStep
    \/ \E u \in Uploaders : UploadStep(u)

Spec == Init /\ [][Next]_vars

\* the sweeper against one upload handler, with process restarts
NextSweep ==
    \/ Open
    \/ Terminate
    \/ FlushSignal
    \/ FlushRLock
    \/ FlushSave
    \/ FlushRUnlock
    \/ UploadStep("u1")
    \/ Start
    \/ SweepTick
    \/ \E s \in Sweepers : SweepStep(s)
    \/ Tick

SpecSweep == InitFirstRun /\ [][NextSweep]_vars

\* two upload handlers in an environment where crypto/rand.Read fails
NextNoEntropy ==
    \/ Open
    \/ \E u \in Uploaders : UploadStep(u)
    \/ Tick

SpecNoEntropy == InitNoEntropy /\ [][NextNoEntropy]_vars

\* the sweeper against two upload handlers in an environment where
\* crypto/rand.Read fails
NextDup ==
    \/ Open
    \/ \E u \in Uploaders : UploadStep(u)
    \/ Start
    \/ SweepTick
    \/ \E s \in Sweepers : SweepStep(s)
    \/ Tick

SpecDup == InitNoEntropy /\ [][NextDup]_vars

\* the one request a client sends in the runs of NextLive
UploadOnce == uploads = 0 /\ UploadBegin("u1")

\* a run of runCleanup with GetExpiredFiles and removeEmptyDir taken statement
\* by statement
CleanupStep(s) ==
    \/ ScanStep(s)
    \/ SweepRemove(s)
    \/ SweepDelMeta(s)
    \/ DirRead(s)
    \/ DirRemove(s)

\* the cleanup manager, started and stopped, against one upload handler
NextCleanup ==
    \/ Open
    \/ UploadStep("u1")
    \/ Start
    \/ Stop
    \/ SweepTick
    \/ SweepStop
    \/ \E s \in Sweepers : CleanupStep(s)
    \/ Tick

SpecCleanup == InitFirstRun /\ [][NextCleanup]_vars

\* the server process with its flusher and one upload handler, shut down by
\* a signal and started again
NextShutdown ==
    \/ Open
    \/ FlushTick
    \/ FlushSignal
    \/ FlushRLock
    \/ FlushSave
    \/ FlushRUnlock
    \/ UploadStep("u1")
    \/ Start
    \/ handleShutdown

SpecShutdown == InitFirstRun /\ [][NextShutdown]_vars

\* the store under the set command, its flusher and Close, one upload, and
\* process restarts
NextConfig ==
    \/ Open
    \/ Terminate
    \/ SetCommand
    \/ FlushSignal
    \/ FlushRLock
    \/ FlushSave
    \/ FlushRUnlock
    \/ CloseLock
    \/ CloseSave
    \/ CloseUnlock
    \/ UploadOnce
    \/ UploadRest("u1")

SpecConfig == InitFirstRun /\ [][NextConfig]_vars

\* the HTTP handlers: uploads with any TTL, and requests on stored files
NextHttp ==
    \/ Open
    \/ UploadBeginAny("u1")
    \/ UploadRest("u1")
    \/ handleFiles
    \/ Tick

SpecHttp == InitHttp /\ [][NextHttp]_vars

\* handleUpload with SaveFileMetadata taken statement by statement
UploadStatements(u) ==
    \/ UploadBegin(u)
    \/ UploadName(u)
    \/ UploadMkdir(u)
    \/ UploadCreate(u)
    \/ UploadCopy(u)
    \/ UploadLock(u)
    \/ UploadAdvance(u)
    \/ UploadInsert(u)

\* everything that enters the store in one process: two upload handlers,
\* SetConfig, the flusher and Close
NextExclusive ==
    \/ Open
    \/ FlushTick
    \/ FlushSignal
    \/ FlushRLock
    \/ FlushSave
    \/ FlushRUnlock
    \/ CloseLock
    \/ CloseSave
    \/ CloseUnlock
    \/ SetConfig
    \/ \E u \in Uploaders : UploadStatements(u)

SpecExclusive == InitFirstRun /\ [][NextExclusive]_vars

\* runs of the sweeper one after the other, and one upload handler
NextTwice ==
    \/ Open
    \/ UploadStep("u1")
    \/ RunOnce
    \/ Tick

SpecTwice == InitFirstRun /\ [][NextTwice]_vars

\* a process that keeps running: the store, its flusher, one upload and the
\* sweeper's periodic runs
NextLive ==
    \/ Open
    \/ FlushTick
    \/ FlushSignal
    \/ FlushRLock
    \/ FlushSave
    \/ FlushRUnlock
    \/ SetConfig
    \/ UploadOnce
    \/ UploadName("u1")
    \/ UploadMkdir("u1")
    \/ UploadCreate("u1")
    \/ UploadCopy("u1")
    \/ UploadLock("u1")
    \/ UploadStore("u1")
    \/ Start
    \/ SweepTick
    \/ SweepStep("ticker")
    \/ Tick

\* every goroutine that can run does: the flusher's ticker fires, a pending
\* flush request is received, a blocked
\* RLock is granted once the writers have left (sync.RWMutex), and who holds
\* the lock releases it
Fairness ==
    /\ WF_vars(FlushTick)
    /\ WF_vars(FlushSignal)
    /\ SF_vars(FlushRLock)
    /\ WF_vars(FlushSave)
    /\ WF_vars(FlushRUnlock)
    /\ WF_vars(UploadStore("u1"))

SpecLive == InitFirstRun /\ [][NextLive]_vars /\ Fairness

\* a process that keeps running with its cleanup manager started and never
\* stopped, and uploads
NextExpiry ==
    \/ Open
    \/ UploadStep("u1")
    \/ Start
    \/ SweepTick
    \/ \E s \in Sweepers : SweepStep(s)
    \/ Tick

\* the ticker of the cleanup manager fires again and again, each sweeper
\* goroutine takes its next step when it can, and a handler inside
\* SaveFileMetadata returns
FairnessExpiry ==
    /\ WF_vars(SweepTick)
    /\ \A s \in Sweepers : WF_vars(SweepStep(s))
    /\ WF_vars(UploadStore("u1"))

SpecExpiry == InitFirstRun /\ [][NextExpiry]_vars /\ FairnessExpiry

\* everything that takes the lock of the store in a process that keeps
\* running: upload handlers, the sweeper's periodic runs, the flusher and
\* Close
NextLocks ==
    \/ Open
    \/ FlushTick
    \/ FlushSignal
    \/ FlushRLock
    \/ FlushSave
    \/ FlushRUnlock
    \/ CloseLock
    \/ CloseSave
    \/ CloseUnlock
    \/ \E u \in Uploaders : UploadStep(u)
    \/ Start
    \/ SweepTick
    \/ SweepStep("ticker")

\* every goroutine that can run does, and sync.RWMutex lets no waiter
\* starve: a goroutine blocked in Lock or RLock gets the lock if it is free
\* again and again
FairnessLocks ==
    /\ \A u \in Uploaders : SF_vars(UploadLock(u)) /\ WF_vars(UploadStore(u))
    /\ WF_vars(FlushTick)
    /\ SF_vars(FlushRLock)
    /\ WF_vars(FlushSave)
    /\ WF_vars(FlushRUnlock)
    /\ SF_vars(CloseLock)
    /\ WF_vars(CloseSave)
    /\ WF_vars(CloseUnlock)
    /\ SF_vars(SweepStep("ticker"))

SpecLocks == InitLeftover /\ [][NextLocks]_vars /\ FairnessLocks

\* ================================================================ claims
OpenStep == phase = "down" /\ phase' = "up"

\* C1: every step leaves the snapshot file as it was or replaces it by the
\* complete serialization of the state being flushed, never by a partial
\* write, wherever the process is killed; and whatever the temp file holds
\* (nothing, a truncated write, a complete one), Open loads the snapshot.
C1_AtomicFlush ==
    [][/\ disk'[FilePath] # disk[FilePath]
          => disk'[FilePath] = Snap(Marshal(data))
       /\ OpenStep /\ disk[FilePath].kind = "snap"
          => Marshal(data') = disk[FilePath].doc]_vars

\* a process was killed between the truncation of the temp file and the end
\* of its write, and the next one runs on the records flushed before
C1_Witness ==
    /\ phase = "up" /\ restarts > 0 /\ ioFaults = 0
    /\ flusher.pc = "idle" /\ closer.pc = "idle"
    /\ disk[TempPath] = Torn
    /\ disk[FilePath].kind = "snap"
    /\ DOMAIN data.Files # {}

\* C2: whenever the sweeper (the only caller of DeleteFileMetadata) has
\* removed a record, the physical file at the record's path is gone.
C2_NoFileSurvivesItsMetadata ==
    \A p \in removedMeta : p \notin files

\* a run of runCleanup is between its first and its last statement
InRun(s) == sw[s].pc \in {"list", "scan", "remove", "delmeta", "rmdir", "rmdir2"}

SweepInProgress == \E s \in Sweepers : InRun(s)

\* C3, as stated: when no sweep is in progress, the physical file of every
\* live record exists.
C3_NoDanglingMetadata ==
    ~SweepInProgress => \A m \in Records(data) : m.FilePath \in files

\* C3, amended: when no sweep is in progress, the physical file of every live
\* record exists, unless the process was restarted from a snapshot that the
\* removal of the record had not reached; such a record has expired.
C3_NoDanglingMetadataAmended ==
    ~SweepInProgress =>
        \A m \in Records(data) :
            \/ m.FilePath \in files
            \/ restarts > 0 /\ Before(m.ExpiresAt, Instant(now))

\* a sweep has removed the file and the record of an expired upload and has
\* ended, and a record uploaded later is live
C3_Witness ==
    /\ phase = "up" /\ ~SweepInProgress /\ restarts = 0
    /\ removedMeta # {}
    /\ Records(data) # {}
    /\ \A p \in removedMeta : p \notin files

\* C4: within a process, each id SaveFileMetadata assigns is greater than
\* every id assigned before it (so none is reused, deleted or not), and a
\* stored record keeps its id.
C4_IdsIncrease ==
    [][phase = "up" /\ phase' = "up" =>
        /\ \A a \in inserted' \ inserted : \A b \in inserted : a[1] > b[1]
        /\ \A i \in DOMAIN data.Files \cap DOMAIN data'.Files :
              data'.Files[i].ID = data.Files[i].ID
        /\ \A i \in DOMAIN data'.Files : data'.Files[i].ID = i]_vars

\* record 1 was deleted by the sweeper, and an insert that began after the
\* deletion has been given id 2
C4_Witness ==
    /\ phase = "up" /\ restarts = 0
    /\ \E a \in inserted : a[1] = 1 /\ a[2] \in removedMeta
    /\ DOMAIN data.Files = {}
    /\ \E u \in Uploaders : up[u].pc = "store" /\ up[u].id = 2

\* C5: inserts issued concurrently get pairwise distinct ids, and each
\* inserted record that has not been deleted is the one record
\* GetFileMetadata returns for its path, under the id it was given.
C5_ConcurrentInserts ==
    phase = "up" =>
        /\ \A a, b \in inserted : a[1] = b[1] => a = b
        /\ \A a \in inserted :
              a[2] \notin removedMeta =>
                  /\ a[1] \in DOMAIN data.Files
                  /\ GetFileMetadata(data, a[2]) = {data.Files[a[1]]}

\* two uploads overlapped (the request that began second was inserted first)
\* and both are stored
C5_Witness ==
    /\ phase = "up"
    /\ \E a, b \in inserted : a[1] = 1 /\ b[1] = 2 /\ a[2].name.rnd = <<"rand", 2>>
                              /\ b[2].name.rnd = <<"rand", 1>>
    /\ DOMAIN data.Files = {1, 2}

\* C6: no two live records have the same relativePath.
C6_UniquePaths ==
    \A i, j \in DOMAIN data.Files :
        i # j => data.Files[i].FilePath # data.Files[j].FilePath

\* C7: Open after a successful Close (and nothing after it) yields the records
\* the store held at the Close, with the same ids, paths and timestamps, the
\* same configuration, and a counter above every id assigned before the
\* Close; an insert after the reopen gets an id no earlier insert got.
C7_RoundTrip ==
    [][/\ OpenStep /\ closedData # NoData =>
            /\ RecordView(data') = RecordView(closedData)
            /\ data'.Config = closedData.Config
            /\ \A a \in inserted : data'.NextID > a[1]
       /\ phase = "up" /\ phase' = "up" =>
            \A a \in inserted' \ inserted : \A b \in inserted : a[1] # b[1]]_vars

\* record 1 was read back from the snapshot written by Close, and record 2
\* was inserted after the reopen
C7_Witness ==
    /\ phase = "up" /\ restarts > 0
    /\ \E a, b \in inserted : a[1] = 1 /\ b[1] = 2
    /\ DOMAIN data.Files = {1, 2}
    /\ ~data.Files[1].UploadedAt.mono
    /\ data.Files[2].UploadedAt.mono

\* C9: Open on a snapshot file that does not parse fails, and no step
\* replaces such a file (the code keeps no backup of it).
C9_CorruptSnapshotKept ==
    [][/\ ~(OpenStep /\ disk[FilePath] = Torn)
       /\ disk[FilePath] = Torn => disk'[FilePath] = Torn]_vars

\* the snapshot file holds the state of the store
Persisted == disk[FilePath] = Snap(Marshal(data))

OnDisk(i) == /\ disk[FilePath].kind = "snap"
             /\ ToString(i) \in DOMAIN disk[FilePath].doc.files

ConfigOnDisk(k, v) == /\ disk[FilePath].kind = "snap"
                      /\ k \in DOMAIN disk[FilePath].doc.config
                      /\ disk[FilePath].doc.config[k] = v

ConfigIs(k, v) == k \in DOMAIN data.Config /\ data.Config[k] = v

\* C8: in a process that keeps running and whose flush I/O comes to succeed,
\* every inserted record reaches a snapshot on disk unless it is deleted
\* first, every deletion reaches one, and every configuration value (the
\* defaults Open seeds, the values SetConfig stores) reaches one unless it
\* is overwritten first.
C8_MutationsReachDisk ==
    /\ \A i \in 1..IdCap :
          (i \in DOMAIN data.Files) ~> (OnDisk(i) \/ i \notin DOMAIN data.Files)
    /\ \A i \in 1..IdCap :
          (phase = "up" /\ i < data.NextID /\ i \notin DOMAIN data.Files)
             ~> (disk[FilePath].kind = "snap" /\ ~OnDisk(i))
    /\ \A k \in DOMAIN DefaultConfig : \A v \in ConfigValues \cup {DefaultConfig[k]} :
          ConfigIs(k, v) ~> (ConfigOnDisk(k, v) \/ ~ConfigIs(k, v))

\* the first flush of the process is about to rename a snapshot that holds an
\* upload and a SetConfig; a flush request is pending, so the request of at
\* least one of the two found one pending already and was dropped
C8_Witness ==
    /\ phase = "up" /\ ioFaults = 0
    /\ disk[FilePath] = NoFile
    /\ flusher.pc = "rename"
    /\ disk[TempPath] = Snap(Marshal(data))
    /\ autoSave = 1
    /\ setConfigs = 1
    /\ DOMAIN data.Files = {1}

\* a step of the flusher's save() that fails
FlushFails == InSave(flusher) /\ flusher'.pc = "unlock" /\ ioFaults' = ioFaults + 1

\* C10: a flush that fails leaves the process running, the state of the store
\* and the snapshot file as they were, and the state is flushed again, so that
\* once I/O succeeds the snapshot on disk is the state of the store.
C10_FailedFlushRetried ==
    /\ [][FlushFails => phase' = "up" /\ data' = data
                        /\ disk'[FilePath] = disk[FilePath]]_vars
    /\ (phase = "up" /\ ~Persisted) ~> Persisted

\* the rename of a flush has failed: the temp file is complete, the snapshot
\* file is behind the store
C10_Witness ==
    /\ phase = "up" /\ flusher.pc = "unlock" /\ ioFaults = 1
    /\ disk[TempPath] = Snap(Marshal(data))
    /\ ~Persisted
    /\ DOMAIN data.Files # {}

\* the list l holds exactly the records of d whose ExpiresAt is strictly
\* before t, each once
ExactlyExpired(l, d, t) ==
    /\ \A m \in Records(d) :
          (m.ExpiresAt.wall < t) <=> (\E i \in DOMAIN l : l[i] = m)
    /\ \A i \in DOMAIN l : l[i] \in Records(d)
    /\ \A i, j \in DOMAIN l : i # j => l[i] # l[j]

\* C11: the list GetExpiredFiles returns holds every live record whose
\* ExpiresAt is strictly before the clock reading it took, no record whose
\* ExpiresAt is the reading or later, and no record twice: so for the list a
\* running call hands to the sweeper, and so at every clock reading and in
\* every order of the map iteration for the store of every reachable state.
C11_ListExpiredExact ==
    [][/\ \A s \in Sweepers :
            sw[s].pc = "scan" /\ sw'[s].pc # "scan" /\ phase' = "up" =>
                /\ ExactlyExpired(sw[s].out, data, sw[s].at)
                /\ sw'[s].listed = Range(sw[s].out)
       /\ \A t \in 0..MaxTime : \A l \in GetExpiredFiles(data, t) :
            ExactlyExpired(l, data, t)]_vars

\* the loop of a call has met records 1 and 2 and has appended record 1 and
\* not record 2, which expires at the very clock reading the call took
C11_Witness ==
    /\ DOMAIN data.Files = {1, 2}
    /\ \E s \in Sweepers :
        /\ sw[s].pc = "scan" /\ sw[s].seen = {1, 2}
        /\ sw[s].out = <<data.Files[1]>>
        /\ data.Files[2].ExpiresAt.wall = sw[s].at

\* the clock reading T + h hours of a record uploaded at T with ttlHours = h
ExpiryReading(m) == m.UploadedAt.wall + m.TTL * Hour

\* C12: the record an upload stores carries the clock reading T taken after
\* the file was written and the request's ttl h; a live record is absent from
\* the list of GetExpiredFiles at every clock reading up to T + h hours and
\* present at every later one, for the list a running call returns and for
\* every clock reading over the store of every reachable state.
C12_ExpiryByTTL ==
    [][/\ \A u \in Uploaders :
            up[u].pc = "store" /\ up'[u].pc = "idle" /\ phase' = "up" =>
                /\ up[u].id \in DOMAIN data'.Files
                /\ data'.Files[up[u].id].UploadedAt.wall = up[u].at
                /\ data'.Files[up[u].id].TTL = up[u].ttl
       /\ \A s \in Sweepers :
            sw[s].pc = "scan" /\ sw'[s].pc # "scan" /\ phase' = "up" =>
                \A m \in Records(data) :
                    (m \in Range(sw[s].out)) <=> (sw[s].at > ExpiryReading(m))
       /\ \A m \in Records(data) : \A t \in 0..MaxTime :
            \A l \in GetExpiredFiles(data, t) :
                (m \in Range(l)) <=> (t > ExpiryReading(m))]_vars

\* a call that read the clock one tick after T + h hours of record 1, and
\* before T + h hours of record 2, has appended record 1 only
C12_Witness ==
    /\ DOMAIN data.Files = {1, 2}
    /\ \E s \in Sweepers :
        /\ sw[s].pc = "scan" /\ sw[s].seen = {1, 2}
        /\ sw[s].out = <<data.Files[1]>>
        /\ sw[s].at = ExpiryReading(data.Files[1]) + 1
        /\ sw[s].at < ExpiryReading(data.Files[2])

\* C13: the list a call of GetExpiredFiles returns is a list of the expired
\* records of the store as it was at one instant of the call, the one at
\* which the call read the clock; no insert and no delete takes effect while
\* the call's loop runs.
C13_SnapshotConsistent ==
    [][\A s \in Sweepers :
        /\ sw[s].pc = "scan" /\ sw'[s].pc # "scan" /\ phase' = "up" =>
              sw[s].out \in GetExpiredFiles(sw[s].view, sw[s].at)
        /\ sw[s].pc = "scan" /\ phase' = "up" => data' = data]_vars

\* a call is inside its loop while an insert and a delete of other
\* goroutines wait for the lock
C13_Witness ==
    \E s, r \in Sweepers :
        /\ sw[s].pc = "scan"
        /\ DOMAIN data.Files \ sw[s].seen # {}
        /\ sw[r].pc = "delmeta"
        /\ up["u1"].pc = "lock"

\* the inserts that have returned and whose record has not been deleted
LiveInserts == {a \in inserted : a[2] \notin removedMeta}

\* C14: when SaveFileMetadata returns, the lock is free and GetFileMetadata
\* of the path returns the one record inserted, with the id assigned and the
\* fields given; from then on, until DeleteFileMetadata removes it, the
\* record stays as it is, GetFileMetadata returns it, and a call of
\* GetExpiredFiles that takes the lock sees it in the store it lists.
C14_InsertVisible ==
    [][phase = "up" /\ phase' = "up" =>
        /\ \A u \in Uploaders :
              up[u].pc = "store" /\ up'[u].pc = "idle" =>
                  /\ mux'.w = NoOne
                  /\ GetFileMetadata(data', up[u].path) =
                        {[NewMetadata(up[u].path, up[u].size, up[u].at, up[u].ttl)
                            EXCEPT !.ID = up[u].id]}
        /\ \A i \in DOMAIN data.Files :
              \/ i \in DOMAIN data'.Files /\ data'.Files[i] = data.Files[i]
              \/ data.Files[i].FilePath \in removedMeta'
        /\ \A a \in LiveInserts :
              /\ a[1] \in DOMAIN data.Files
              /\ GetFileMetadata(data, a[2]) = {data.Files[a[1]]}
        /\ \A s \in Sweepers :
              sw[s].pc = "list" /\ sw'[s].pc = "scan" =>
                  \A a \in LiveInserts : a[1] \in DOMAIN sw'[s].view.Files
        /\ \A s \in Sweepers :
              sw[s].pc = "scan" /\ sw'[s].pc # "scan" =>
                  \A a \in LiveInserts :
                      Before(data.Files[a[1]].ExpiresAt, Instant(sw[s].at))
                          => data.Files[a[1]] \in Range(sw[s].out)]_vars

\* a call of GetExpiredFiles that took the lock after the insert of record 2
\* has met it, record 1 having been deleted before
C14_Witness ==
    /\ DOMAIN data.Files = {2}
    /\ inserted # {} /\ removedMeta # {}
    /\ \E s \in Sweepers :
        /\ sw[s].pc = "scan" /\ sw[s].seen = {2}
        /\ sw[s].out = <<data.Files[2]>>

\* C15: at most one run of runCleanup is in flight.
C15_OneSweepInFlight ==
    Cardinality({s \in Sweepers : InRun(s)}) <= 1

\* C16: whatever os.Remove returns for a record, the run goes on to delete
\* the record's metadata, and a run ends only when no record that its
\* listing returned is left in the store.
C16_SweepNeverAborts ==
    [][phase = "up" /\ phase' = "up" =>
        \A s \in Sweepers :
            /\ sw[s].pc = "remove" /\ sw'[s].pc # "remove" =>
                  sw'[s].pc = "delmeta"
            /\ sw[s].pc = "delmeta" /\ sw'[s].pc # "delmeta" =>
                  GetFileMetadata(data', sw[s].cur.FilePath) = {}
            /\ InRun(s) /\ ~InRun(s)' =>
                  \A m \in sw[s].listed :
                      /\ GetFileMetadata(data', m.FilePath) = {}
                      /\ m.FilePath \in removedMeta']_vars

\* the sweeps have ended; the records of two files are gone, of which one
\* file is still there because its os.Remove returned an error
C16_Witness ==
    /\ phase = "up" /\ ~SweepInProgress
    /\ Cardinality(removedMeta) = 2
    /\ ioFaults = 1
    /\ \E p \in removedMeta : p \in files
    /\ Records(data) = {}

\* a run when the clock reads now, whatever os.Remove returns in it, followed
\* by a run when the clock reads t2, with nothing between them: the second
\* lists nothing, so it calls nothing that can fail, and leaves the store and
\* the storage tree as the first left them
SecondRunIdle(t2) ==
    \A f1 \in SUBSET files : \A s1 \in runCleanup(Tree, now, f1) :
        \A f2 \in SUBSET s1.files :
            /\ GetExpiredFiles(s1.data, t2) = {<< >>}
            /\ runCleanup(s1, t2, f2) = {s1}

\* C17, as stated: the second of two runs in succession deletes nothing,
\* whenever it reads the clock.
C17_SweepIdempotent ==
    \A t2 \in now..MaxTime : SecondRunIdle(t2)

\* C17, amended: the second of two runs in succession deletes nothing,
\* provided no record reaches its expiry between the clock readings of the
\* two runs.
C17_SweepIdempotentAmended ==
    \A t2 \in now..MaxTime :
        (\A m \in Records(data) :
            ~(now <= m.ExpiresAt.wall /\ m.ExpiresAt.wall < t2))
        => SecondRunIdle(t2)

\* a run has removed the record of an expired file whose os.Remove returned
\* an error, and a record that has not expired is live
C17_Witness ==
    /\ phase = "up"
    /\ \E p \in removedMeta : p \in files
    /\ \E m \in Records(data) : ~Before(m.ExpiresAt, Instant(now))

\* the files of the storage tree in date directory d
FilesIn(d) == {f \in files : ParseDateFromPath(f) = d}

C19_SweepNeverFailsUpload ==
    [][\A u \in Uploaders :
        up[u].pc \in {"mkdir", "create", "copy"} /\ up'[u].pc = "idle"
        /\ phase' = "up"
            => ioFaults' = ioFaults + 1]_vars

\* C20: when Stop returns, no run of runCleanup is in flight.
C20_StopWaitsForSweep ==
    [][stopChan = "open" /\ stopChan' = "closed" => ~SweepInProgress']_vars

\* C21: once Stop has returned, the loop takes no tick from its ticker: no
\* run of runCleanup starts.
C21_NoSweepAfterStop ==
    [][stopChan = "closed" /\ phase' = "up" =>
          ~(sw["ticker"].pc = "wait" /\ sw'["ticker"].pc = "list")]_vars

\* C29: the path GenerateFilePath returns has one and the same date as its
\* directory and as the prefix of its file name, in a handler that holds the
\* path and in every record stored.
C29_OneDateInPath ==
    /\ \A u \in Uploaders :
          up[u].pc \notin {"idle", "name"} =>
              up[u].path.dir = up[u].path.name.date
    /\ \A m \in Records(data) : m.FilePath.dir = m.FilePath.name.date

\* C23: after Close has returned, the autoSaveLoop goroutine writes nothing:
\* neither the temp file nor the snapshot file changes while the process runs.
C23_CloseEndsFlusher ==
    [][closer.pc = "closed" /\ phase' = "up" => disk' = disk]_vars

\* C22: the process exits on a signal only when no flush is between the
\* write of its temp file and its rename.
C22_NoExitMidFlush ==
    [][phase = "up" /\ phase' = "down" => flusher.pc # "rename"]_vars

\* C24: when DeleteFileMetadata(p) returns, no record of the store has the
\* path p and every record with another path is as it was; when no record
\* had the path p, the store and the flush channel are as they were.
C24_DeleteByPathFrame ==
    [][phase = "up" /\ phase' = "up" =>
        \A s \in Sweepers :
            sw[s].pc = "delmeta" /\ sw'[s].pc # "delmeta" =>
                /\ GetFileMetadata(data', sw[s].cur.FilePath) = {}
                /\ \A i \in DOMAIN data.Files :
                      data.Files[i].FilePath # sw[s].cur.FilePath =>
                          /\ i \in DOMAIN data'.Files
                          /\ data'.Files[i] = data.Files[i]
                /\ GetFileMetadata(data, sw[s].cur.FilePath) = {} =>
                      data' = data /\ autoSave' = autoSave]_vars

\* C25: a DELETE request on the path of a stored file that has a record
\* removes the file and the record.
C25_ExplicitDelete ==
    [][resp' # resp /\ resp'.handler = "files" /\ resp'.req.method = "DELETE"
       /\ resp'.req.path \in files /\ GetFileMetadata(data, resp'.req.path) # {}
          => /\ resp'.req.path \notin files'
             /\ GetFileMetadata(data', resp'.req.path) = {}]_vars

\* C26: a request that handleUpload lets pass its TTL check has a TTL of at
\* least 1 and at most cfg.Storage.MaxTTL; every other request is answered
\* with the client error 400, for a form value that does not parse or parses
\* to a TTL out of range, and the step that answers it changes nothing else:
\* no record, no file, no directory, no flush request, and the handler is idle.
C26_InvalidTTLRejected ==
    [][phase = "up" /\ phase' = "up" =>
        /\ \A u \in Uploaders :
              up[u].pc = "idle" /\ up'[u].pc = "name" =>
                  1 <= up'[u].ttl /\ up'[u].ttl <= cfg.MaxTTL
        /\ uploads' = uploads + 1 /\ up' = up =>
              /\ resp' = Response("upload", resp'.req, 400)
              /\ resp'.req.n = uploads'
              /\ \/ ~ParseTTL(resp'.req.form, cfg).ok
                 \/ ParseTTL(resp'.req.form, cfg).n < 1
                 \/ ParseTTL(resp'.req.form, cfg).n > cfg.MaxTTL
              /\ data' = data /\ files' = files /\ dirs' = dirs
              /\ inserted' = inserted /\ autoSave' = autoSave /\ disk' = disk
        /\ resp' # resp /\ resp'.status = 400 =>
              up' = up /\ data' = data /\ files' = files /\ dirs' = dirs]_vars

\* with the default limit of 8760 hours, a first upload with ttl=8760 is
\* stored and a second one with ttl=20000 has been answered 400
C26_Witness ==
    /\ phase = "up" /\ cfg.MaxTTL = 8760
    /\ resp = Response("upload", [n |-> 2, form |-> "20000"], 400)
    /\ DOMAIN data.Files = {1} /\ data.Files[1].TTL = 8760
    /\ Cardinality(files) = 1 /\ Cardinality(dirs) = 1
    /\ up["u1"] = IdleUp

\* C27: every record an upload has stored has 1 <= TTL <= cfg.Storage.MaxTTL,
\* ExpiresAt = UploadedAt + TTL hours, and ExpiresAt after UploadedAt, whatever
\* the limit configured.
C27_ExpiryArithmetic ==
    phase = "up" =>
        \A m \in Records(data) :
            /\ 1 <= m.TTL /\ m.TTL <= cfg.MaxTTL
            /\ m.ExpiresAt.wall = m.UploadedAt.wall + m.TTL * Hour
            /\ m.ExpiresAt.wall > m.UploadedAt.wall

\* C28: when SetConfig(k, v) returns, GetConfig(k) is v, every other key has
\* the value it had and the records and the id counter are as they were; no
\* other step of a running process changes the configuration; and after a
\* successful Close and a reopen GetConfig returns, for every key, the value
\* the store held at the Close.
C28_ConfigReadBack ==
    [][/\ phase = "up" /\ phase' = "up" /\ resp' # resp /\ resp'.handler = "set" =>
            /\ GetConfig(data', resp'.req.key) = resp'.req.value
            /\ \A k \in (DOMAIN data.Config \cup DOMAIN data'.Config) \ {resp'.req.key} :
                  GetConfig(data', k) = GetConfig(data, k)
            /\ data'.Files = data.Files /\ data'.NextID = data.NextID
       /\ phase = "up" /\ phase' = "up" /\ resp' = resp => data'.Config = data.Config
       /\ OpenStep /\ closedData # NoData =>
            \A k \in DOMAIN closedData.Config :
                GetConfig(data', k) = closedData.Config[k]]_vars

\* the date directories a clock reading of the model can name
Dates == 0 .. (MaxTime \div DayTicks)

\* over the store d: ListAllDates returns, each once, the first path
\* components of the records; ListFilesByDate(date) returns, each once, the
\* records whose path is in the directory date; and it returns at least one
\* record for every date ListAllDates returns
DateBrowsingExact(d) ==
    /\ \A l \in ListAllDates(d) :
          /\ Range(l) = {ParseDateFromPath(m.FilePath) : m \in Records(d)}
          /\ \A i, j \in DOMAIN l : i # j => l[i] # l[j]
          /\ \A i \in DOMAIN l : \A f \in ListFilesByDate(d, l[i]) : Len(f) > 0
    /\ \A date \in Dates : \A f \in ListFilesByDate(d, date) :
          /\ Range(f) = {m \in Records(d) : ParseDateFromPath(m.FilePath) = date}
          /\ \A i, j \in DOMAIN f : i # j => f[i] # f[j]

\* C30: in every state a step leads to, date browsing is exact over the
\* store; and when DeleteFileMetadata has removed the last record of a date,
\* ListAllDates no longer returns the date.
C30_DateBrowsing ==
    [][phase' = "up" =>
        /\ DateBrowsingExact(data')
        /\ \A s \in Sweepers :
              sw[s].pc = "delmeta" /\ sw'[s].pc # "delmeta"
              /\ (\A m \in Records(data') :
                     ParseDateFromPath(m.FilePath) #
                        ParseDateFromPath(sw[s].cur.FilePath))
              => \A l \in ListAllDates(data') :
                     ParseDateFromPath(sw[s].cur.FilePath) \notin Range(l)]_vars

\* a sweep has removed the only record of day 0, and a record of day 1 is
\* live: ListAllDates returns day 1 only
C30_Witness ==
    /\ phase = "up"
    /\ \E p \in removedMeta : ParseDateFromPath(p) = 0
    /\ Records(data) # {}
    /\ ListAllDates(data) = {<<1>>}

\* C31: in a run of the sweeper the attempt to delete a record's physical
\* file comes before the removal of its metadata: the store loses a record
\* only in the step of a sweeper that has the record in hand after its
\* os.Remove; a sweeper comes to that point only by an os.Remove that changed
\* no metadata and either left no file at the path or failed; the record of
\* a file that is already missing is removed all the same; and a process
\* that ends between the two steps leaves the record in the store unless
\* another run had removed it.
C31_DeleteFileBeforeMetadata ==
    [][/\ phase = "up" /\ phase' = "up" =>
            /\ \A m \in Records(data) \ Records(data') :
                  \E s \in Sweepers :
                      /\ sw[s].pc = "delmeta" /\ sw'[s].pc = "rmdir"
                      /\ sw[s].cur.FilePath = m.FilePath
            /\ \A s \in Sweepers :
                  /\ sw[s].pc # "delmeta" /\ sw'[s].pc = "delmeta" =>
                        /\ sw[s].pc = "remove"
                        /\ sw'[s].cur \in sw[s].todo
                        /\ data' = data
                        /\ \/ sw'[s].cur.FilePath \notin files'
                           \/ ioFaults' = ioFaults + 1
                  /\ sw[s].pc = "remove" /\ sw'[s] # sw[s] =>
                        sw'[s].pc = "delmeta"
       /\ phase = "up" /\ phase' = "down" =>
            \A s \in Sweepers :
                sw[s].pc = "delmeta" /\ sw[s].cur.FilePath \notin removedMeta =>
                    sw[s].cur \in Records(data)]_vars

\* the first process has ended between the two steps: the file of an upload
\* is gone, no record has been removed, and the snapshot still holds the
\* record of the missing file
C31_Witness ==
    /\ phase = "down" /\ restarts = 1
    /\ removedMeta = {}
    /\ disk[FilePath].kind = "snap"
    /\ \E m \in Records(Loaded) :
          /\ m.FilePath \notin files
          /\ \E e \in inserted : e[2] = m.FilePath

\* C32: a sweeper goroutine holds the read lock exactly while it is inside
\* GetExpiredFiles and never holds the write lock from one step to the next
\* (DeleteFileMetadata takes and releases it within its call); so while
\* every sweeper is at a physical deletion or between two steps of its loop,
\* no sweeper holds the lock: a lookup gets the read lock unless an insert is
\* in progress, and a handler waiting to insert gets the write lock.
C32_SweeperLockFree ==
    /\ \A s \in Sweepers :
          /\ s \in mux.r <=> sw[s].pc = "scan"
          /\ mux.w # s
    /\ phase = "up" /\ (\A s \in Sweepers : sw[s].pc # "scan") =>
          /\ mux.r = {}
          /\ mux.w = NoOne => CanRLock /\ CanLock
          /\ up["u1"].pc = "lock" => CanLock

\* an upload handler is inside SaveFileMetadata, holding the write lock,
\* while a run of the sweeper is between its os.Remove and its
\* DeleteFileMetadata
C32_Witness ==
    /\ mux.w = "u1" /\ up["u1"].pc = "store"
    /\ \E s \in Sweepers : sw[s].pc = "delmeta" /\ sw[s].cur.FilePath \notin files

\* no write of SaveFileMetadata is half done in d: every id below the counter
\* has its record (nothing is deleted in the runs of NextExclusive)
NoTornWrite(d) == DOMAIN d.Files = 1 .. (d.NextID - 1)

\* who is inside the store holding the write lock (SetConfig is inside for
\* one step only), and who holding the read lock
WritersInside ==
    {u \in Uploaders : up[u].pc \in {"store", "insert"}}
       \cup (IF InSave(closer) \/ closer.pc = "unlock" THEN {"closer"} ELSE {})
ReadersInside ==
    IF InSave(flusher) \/ flusher.pc = "unlock" THEN {"flusher"} ELSE {}

RECURSIVE SumSizes(_)
SumSizes(S) ==
    IF S = {} THEN 0
    ELSE LET m == CHOOSE x \in S : TRUE
         IN  m.FileSize + SumSizes(S \ {m})

\* C34: a run's history of removed records holds exactly the records whose
\* os.Remove took the file off the disk (a file already missing or a failed
\* delete adds none); the summary the run logs counts exactly these, and it
\* does not report their bytes as zero unless their sizes sum to zero.
C34_SweepSummary ==
    [][phase = "up" /\ phase' = "up" =>
        \A s \in Sweepers :
            /\ sw[s].pc = "remove" /\ sw'[s].pc # "remove" =>
                  /\ sw'[s].cur \in sw'[s].removed <=>
                        /\ sw'[s].cur.FilePath \in files
                        /\ sw'[s].cur.FilePath \notin files'
                  /\ sw'[s].removed \ {sw'[s].cur} = sw[s].removed \ {sw'[s].cur}
            /\ sw[s].pc \in {"rmdir", "rmdir2"} /\ ~InRun(s)' =>
                  /\ Summary(s).deleted = Cardinality(sw[s].removed)
                  /\ Summary(s).freed = "0 B" => SumSizes(sw[s].removed) = 0]_vars

\* C35: a run of the sweeper lists only records whose ExpiresAt is before the
\* clock reading of its listing, removes a record from the store only if the
\* record's ExpiresAt is before that reading, and removes a physical file
\* only if the ExpiresAt of every record of the store with the file's path is
\* before it.
C35_OnlyExpiredRemoved ==
    [][phase = "up" /\ phase' = "up" =>
        /\ \A s \in Sweepers :
              sw[s].pc \in {"list", "scan"} /\ sw'[s].pc = "remove" =>
                  \A m \in sw'[s].listed :
                      Before(m.ExpiresAt, Instant(sw'[s].at))
        /\ \A m \in Records(data) \ Records(data') :
              \E s \in Sweepers :
                  /\ sw[s].pc = "delmeta" /\ sw'[s].pc # "delmeta"
                  /\ Before(m.ExpiresAt, Instant(sw[s].at))
        /\ \A p \in files \ files' :
              \E s \in Sweepers :
                  /\ sw[s].pc = "remove" /\ sw'[s].pc # "remove"
                  /\ \A m \in Records(data) :
                        m.FilePath = p => Before(m.ExpiresAt, Instant(sw[s].at))]_vars

\* the record with the id i is in the store and its ExpiresAt has passed
Overdue(i) ==
    /\ phase = "up" /\ started
    /\ i \in DOMAIN data.Files
    /\ Before(data.Files[CHOOSE j \in DOMAIN data.Files : j = i].ExpiresAt, Instant(now))

\* no record has the id i, and the file of the record stored with it is not
\* on the disk
Swept(i) ==
    /\ i \notin DOMAIN data.Files
    /\ \A e \in inserted : e[1] = i => e[2] \notin files

\* C36: with the cleanup manager started and never stopped and every
\* goroutine scheduled fairly, a record whose ExpiresAt has passed is
\* eventually absent from the store and its file absent from the disk.
C36_ExpiredEventuallySwept ==
    \A i \in 1 .. MaxUploads : Overdue(i) ~> Swept(i)

\* who holds the lock is inside the one operation that took it, at a step
\* it can take without the lock being given to it again; nobody holds it
\* otherwise; and at most one flush request is pending
LockDiscipline ==
    /\ autoSave \in {0, 1}
    /\ mux.w = NoOne \/ mux.r = {}
    /\ mux.w \in {NoOne, "closer"} \cup Uploaders
    /\ mux.r \subseteq {"flusher"}
    /\ \A u \in Uploaders : mux.w = u <=> up[u].pc = "store"
    /\ mux.w = "closer" <=> InSave(closer) \/ closer.pc = "unlock"
    /\ "flusher" \in mux.r <=> InSave(flusher) \/ flusher.pc = "unlock"

\* C37: the lock is held only by an operation that is on its way out, a
\* flush request is a token in a channel of capacity one, and under the fair
\* lock every operation that has come to the lock returns: a handler's
\* SaveFileMetadata, the flusher's save, Close, and the sweeper's
\* GetExpiredFiles and DeleteFileMetadata.
C37_NoDeadlock ==
    /\ []LockDiscipline
    /\ \A u \in Uploaders : (up[u].pc = "lock") ~> (up[u].pc = "idle")
    /\ (flusher.pc = "rlock") ~> (flusher.pc = "idle")
    /\ (phase = "up") ~> (closer.pc = "closed")
    /\ (sw["ticker"].pc = "list") ~> (sw["ticker"].pc # "list")
    /\ (sw["ticker"].pc = "delmeta") ~> (sw["ticker"].pc # "delmeta")

\* everyone is at the lock at once: Close holds it and is writing the
\* snapshot, a handler waits to insert, the flusher waits to read and the
\* sweeper waits to remove the record of the file it has deleted
C37_Witness ==
    /\ mux.w = "closer" /\ closer.pc = "write"
    /\ \E u \in Uploaders : up[u].pc = "lock"
    /\ flusher.pc = "rlock"
    /\ sw["ticker"].pc = "delmeta"

\* C38: the counter is above every id of the file map, in the store of a
\* running process and in the snapshot file it writes and reopens; so the id
\* a handler inside SaveFileMetadata is about to store under is the counter
\* and is the id of no record.
C38_NextIdAboveIds ==
    /\ \A i \in DOMAIN data.Files : i < data.NextID
    /\ disk[FilePath].kind = "snap" =>
          \A i \in DOMAIN Unmarshal(disk[FilePath].doc).Files :
              i < Unmarshal(disk[FilePath].doc).NextID
    /\ \A u \in Uploaders :
          up[u].pc = "store" =>
              /\ up[u].id = data.NextID
              /\ up[u].id \notin DOMAIN data.Files

\* a process that reopened a snapshot with one record (its time stamps have
\* lost the monotonic reading) has a handler inside SaveFileMetadata with the
\* next id
C38_Witness ==
    /\ phase = "up" /\ restarts = 1
    /\ DOMAIN data.Files = {1}
    /\ ~data.Files[1].UploadedAt.mono
    /\ \E u \in Uploaders : up[u].pc = "store" /\ up[u].id = 2

\* C39: in a running process, whenever no upload is in progress, every file
\* of the storage tree has a record in the store with its path.
C39_NoFileWithoutRecord ==
    phase = "up" /\ (\A u \in Uploaders : up[u].pc = "idle") =>
        \A f \in files : GetFileMetadata(data, f) # {}

\* C40: when the process exits on a signal, the snapshot file holds every
\* record that SaveFileMetadata had stored by then.
C40_ShutdownFlushes ==
    [][phase = "up" /\ phase' = "down" =>
        \A m \in Records(data) :
            /\ disk'[FilePath].kind = "snap"
            /\ \E k \in DOMAIN disk'[FilePath].doc.files :
                  disk'[FilePath].doc.files[k] = MarshalMeta(m)]_vars
====
